---------------------------- MODULE Spec2Model ----------------------------
(***************************************************************************)
(* A model of the projector light show (src/presets.js): the beat          *)
(* detector, the motion path blender, the preset engine with its layout    *)
(* cache, the render loop, and the page's beat mode buttons, pop-out and   *)
(* messages.                                                               *)
(*                                                                         *)
(* Numbers the program keeps as floating point are kept here as fixed      *)
(* point integers: energies, ema, dev and thresholds in units of 1/100000, *)
(* sensitivities and slider values in hundredths, times in milliseconds,   *)
(* the motion phase in millionths of a cycle, offsets in hundredths of a   *)
(* pixel, blend factors in thousandths.                                    *)
(***************************************************************************)
EXTENDS Integers, Sequences, FiniteSets, TLC

VARIABLES
    beatSens,       \* beat sensitivity, 0..100
    beatCooldownMs, \* minimum interval between two beats, ms
    beatDetector,   \* the application's BeatDetector instance
    beatObs,        \* what the last call on beatDetector was given and returned
    bd,             \* the spike stream's BeatDetector
    spikeObs,       \* position in the spike stream and the samples that fired
    bdLo,           \* detector always fed with sensitivity 0.0
    bdHi,           \* detector always fed with sensitivity 1.0
    sensObs,        \* number of samples fed to bdLo and bdHi
    now,            \* performance.now(), ms
    lastFrame,      \* time of the previous frame
    lastMouseMovedTime, \* time of the last mouse move
    win,            \* the window: innerWidth, innerHeight, devicePixelRatio
    view,           \* DPR, W, H, panelW, visualW and whether the panel is hidden
    presetSpeed,    \* speed control, 0..100
    transitionSpeed, \* motion blend control, 0..100
    motionPhase,    \* phase of the motion path, millionths of a cycle
    motionFromMode, \* path blended from
    motionToMode,   \* path blended to (the target)
    motionBlendStart, \* time the blend started
    motionBlending, \* a blend is in progress
    motionObs,      \* the last operation on the blender and what it returned
    presetNumber,   \* the selected preset
    onoff,          \* master enable flag: false in the dark half of the strobe
    presetStrobing, \* strobe control, 0..100
    strobeTime,     \* time of the last strobe flip
    multiColor,     \* two-colour mode
    acc,            \* the persistent accumulators v, m, a, b_, c, d, timeRand,
                    \* _sqSpin, _triSpin, the layout cache ranX/ranY and the spotlights
    presetObs,      \* the last frame or call of the preset engine and what it did
    pathObs,        \* a motionPos call: its arguments and what it returned
    rafPending,     \* a call of loop is scheduled (requestAnimationFrame)
    popupWin,       \* the pop-out controls window: none, open or closed
    bpmSTLmode,     \* manual BPM mode is on
    beatDJ,         \* Beat DJ mode is on
    beatAutoColor,  \* Auto Color on beat
    beatAutoPreset, \* Auto Preset on beat
    beatCount,      \* beats counted since the last reset of the count
    analyser,       \* an audio source is connected
    panelObs        \* the last click, message or audio connection and the state before it

beatVars  == <<beatSens, beatCooldownMs, beatDetector, beatObs>>
spikeVars == <<bd, spikeObs>>
sensVars  == <<bdLo, bdHi, sensObs>>
blendVars == <<motionFromMode, motionToMode, motionBlendStart, motionBlending>>
motionVars == <<now, lastFrame, lastMouseMovedTime, win, view, presetSpeed, transitionSpeed,
                motionPhase, blendVars, motionObs>>
presetVars == <<presetNumber, onoff, presetStrobing, strobeTime, multiColor, acc, presetObs>>
pathVars == <<pathObs>>
loopVars == <<rafPending>>
pageVars == <<popupWin, bpmSTLmode, beatDJ, beatAutoColor, beatAutoPreset, beatCount,
              analyser, panelObs>>
vars == <<beatVars, spikeVars, sensVars, motionVars, presetVars, pathVars, loopVars, pageVars>>

----------------------------------------------------------------------------
(* Bounds of the model *)

\* update calls and resets made on the application's detector
MaxCalls == 5
\* latest sample index at which the spike of the spike stream may sit
MaxSpikeAt == 30
\* samples fed to the two detectors of the sensitivity comparison
MaxSensSamples == 5
\* frames and input events of the motion blender
MaxMotionSteps == 5
\* frames and input events of the preset engine
MaxPresetSteps == 3
\* direct drawPreset calls
MaxDraws == 2
\* clicks, audio connections, pop-out openings and messages on the page
MaxPanelSteps == 4
\* consecutive frames of Ring (sin)
RingFrames == 100
\* turns of the motion path over which motionPos is tried
MaxPathTurns == 5

----------------------------------------------------------------------------
(* Arithmetic helpers *)

Abs(x) == IF x < 0 THEN -x ELSE x
Min(x, y) == IF x < y THEN x ELSE y
Max(x, y) == IF x > y THEN x ELSE y

\* x / d rounded to the nearest integer (d > 0): fixed point division
Rnd(x, d) == (2 * x + d) \div (2 * d)

\* clamp = (v, lo, hi) => Math.max(lo, Math.min(hi, v))
clamp(v, lo, hi) == Max(lo, Min(hi, v))

\* lerp = (a,b,t) => a + (b-a)*t, with t given in units of 1/one
lerp(a, b, t, one) == a + Rnd((b - a) * t, one)

----------------------------------------------------------------------------
(* BeatDetector *)

\* sensitivity 1.0 in fixed point (hundredths)
SensOne == 100
\* this.lastBeat = -1e9
NoBeat == -1000000000

\* reset() that puts the last beat at time 0 instead of far in the past
BDResetAtZero == [ema |-> 0, dev |-> 0, prev |-> 0, lastBeat |-> 0, lastThr |-> 0]

\* reset(): the state of a fresh or reset detector
BDReset == [ema |-> 0, dev |-> 0, prev |-> 0, lastBeat |-> NoBeat, lastThr |-> 0]

\* const a = 0.06, in hundredths
SmoothA == 6

\* ema and dev after one more sample
BDEma(d, energy) == d.ema + Rnd(SmoothA * (energy - d.ema), 100)
BDDev(d, energy) ==
    d.dev + Rnd(SmoothA * (Abs(energy - BDEma(d, energy)) - d.dev), 100)

\* k with the two ends of the mapping exchanged
BDKSwapped(sens) == lerp(600, 2200, clamp(sens, 0, SensOne), SensOne)

\* k = lerp(2.2, 0.6, clamp(sens01, 0, 1)), in thousandths
BDK(sens) == lerp(2200, 600, clamp(sens, 0, SensOne), SensOne)
\* base = lerp(0.030, 0.008, clamp(sens01, 0, 1))
BDBase(sens) == lerp(3000, 800, clamp(sens, 0, SensOne), SensOne)
\* gate with the two ends of the mapping exchanged
BDGateSwapped(sens) == lerp(3000, 12000, clamp(sens, 0, SensOne), SensOne)

\* gate = lerp(0.12, 0.03, clamp(sens01, 0, 1))
BDGate(sens) == lerp(12000, 3000, clamp(sens, 0, SensOne), SensOne)

\* thr = this.ema + k * (this.dev * 1.10 + base), with ema and dev updated
BDThr(d, energy, sens) ==
    BDEma(d, energy)
      + Rnd(BDK(sens) * (Rnd(BDDev(d, energy) * 110, 100) + BDBase(sens)), 1000)

\* rising that also accepts an unchanged energy
BDRisingOrEqual(d, energy) == energy >= d.prev

\* rising = energy > this.prev
BDRising(d, energy) == energy > d.prev

\* okTime with the subtraction the wrong way round
BDOkTimeReversed(d, tMs, minIntervalMs) == (d.lastBeat - tMs) <= minIntervalMs

\* okTime = (tMs - this.lastBeat) >= minIntervalMs
BDOkTime(d, tMs, minIntervalMs) == (tMs - d.lastBeat) >= minIntervalMs

\* hit that tests the time only
BDHitTimeOnly(d, energy, tMs, sens, minIntervalMs) ==
    BDOkTime(d, tMs, minIntervalMs)

\* hit = okTime && rising && energy > thr && energy > gate
BDHit(d, energy, tMs, sens, minIntervalMs) ==
    /\ BDOkTime(d, tMs, minIntervalMs)
    /\ BDRising(d, energy)
    /\ energy > BDThr(d, energy, sens)
    /\ energy > BDGate(sens)

\* the detector after update(energy, tMs, sens01, minIntervalMs)
BDUpdate(d, energy, tMs, sens, minIntervalMs) ==
    [ema      |-> BDEma(d, energy),
     dev      |-> BDDev(d, energy),
     prev     |-> energy,
     lastBeat |-> IF BDHit(d, energy, tMs, sens, minIntervalMs)
                  THEN tMs ELSE d.lastBeat,
     lastThr  |-> BDThr(d, energy, sens)]

----------------------------------------------------------------------------
(* The application's detector: update calls and resets *)

\* energies fed to the detector: 0, 0.08, 0.12, 0.8
Energies == {0, 8000, 12000, 80000}
\* sensitivities: 0.0, 0.6 (self tests), 0.7 (beatSens = 70), 1.0
Sensitivities == {0, 60, 70, 100}
\* minimum intervals: 0 and 120 (the self tests), 160 (beatCooldownMs)
MinIntervals == {0, 120, 160}
\* time between two calls: one 16 ms frame, or a longer gap
FrameGaps == {16, 130}

\* the detector is idle: nothing was fed to it
BeatObs0 ==
    [calls |-> 0, steps |-> 0, t |-> 0, energy |-> 0,
     hit |-> FALSE, okTime |-> FALSE,
     prevEnergy |-> 0, prevBeat |-> NoBeat, allZero |-> TRUE,
     hitTimes |-> <<>>, allHits |-> <<>>, wasReset |-> FALSE]
IdleBeat ==
    /\ beatDetector = BDReset
    /\ beatObs = BeatObs0

InitBeat ==
    /\ beatSens \in Sensitivities
    /\ beatCooldownMs \in MinIntervals
    /\ IdleBeat

\* hit = beatDetector.update(energy, tNow, clamp(beatSens/100,0,1), beatCooldownMs),
\* gap ms after the previous call
BeatUpdate(energy, gap) ==
    LET tMs == beatObs.t + gap
        h == BDHit(beatDetector, energy, tMs, beatSens, beatCooldownMs)
    IN  /\ beatObs.steps < MaxCalls
        /\ beatDetector' = BDUpdate(beatDetector, energy, tMs, beatSens, beatCooldownMs)
        /\ beatObs' = [beatObs EXCEPT
              !.calls = @ + 1, !.steps = @ + 1, !.t = tMs, !.energy = energy,
              !.hit = h,
              !.okTime = BDOkTime(beatDetector, tMs, beatCooldownMs),
              !.prevEnergy = beatObs.energy,
              !.prevBeat = beatDetector.lastBeat,
              !.allZero = @ /\ energy = 0,
              !.hitTimes = IF h THEN Append(@, tMs) ELSE @,
              !.allHits = IF h THEN Append(@, tMs) ELSE @]
        /\ UNCHANGED <<beatSens, beatCooldownMs, spikeVars, sensVars, motionVars, presetVars, pathVars>>
        /\ UNCHANGED <<loopVars, pageVars>>

\* beatDetector.reset()
BeatReset ==
    /\ beatObs.steps < MaxCalls
    /\ beatDetector' = BDReset
    /\ beatObs' = [beatObs EXCEPT
          !.calls = 0, !.steps = @ + 1, !.energy = 0, !.hit = FALSE,
          !.allZero = TRUE, !.hitTimes = <<>>, !.wasReset = TRUE]
    /\ UNCHANGED <<beatSens, beatCooldownMs, spikeVars, sensVars, motionVars, presetVars, pathVars>>
    /\ UNCHANGED <<loopVars, pageVars>>

----------------------------------------------------------------------------
(* The spike stream of the self tests: a baseline with one spike *)

\* bd.update(e, t, 0.6, 120); t += 16, for 80 samples
SpikeSens == 60
SpikeMinInterval == 120
StepMs == 16
StreamLen == 80
\* e = 0.8 at the spike, 0.08 elsewhere
SpikeEnergy == 80000
BaselineEnergy == 8000

IdleSpike ==
    /\ bd = BDReset
    /\ spikeObs = [at |-> 0, i |-> 0, fired |-> {}]

InitSpike ==
    /\ bd = BDReset
    /\ spikeObs \in {[at |-> s, i |-> 0, fired |-> {}] : s \in 0..MaxSpikeAt}

SpikeSample ==
    LET i == spikeObs.i
        e == IF i = spikeObs.at THEN SpikeEnergy ELSE BaselineEnergy
        t == i * StepMs
    IN  /\ i < StreamLen
        /\ bd' = BDUpdate(bd, e, t, SpikeSens, SpikeMinInterval)
        /\ spikeObs' = [spikeObs EXCEPT
              !.i = i + 1,
              !.fired = IF BDHit(bd, e, t, SpikeSens, SpikeMinInterval)
                        THEN @ \cup {i} ELSE @]
        /\ UNCHANGED <<beatVars, sensVars, motionVars, presetVars, pathVars>>
        /\ UNCHANGED <<loopVars, pageVars>>

----------------------------------------------------------------------------
(* The sensitivity comparison of the self tests: two detectors, one stream *)

\* bdLo.update(e, i*16, 0.0, 0); bdHi.update(e, i*16, 1.0, 0)
SensLo == 0
SensHi == 100

InitSens ==
    /\ bdLo = BDReset
    /\ bdHi = BDReset
    /\ sensObs = 0

SensSample(energy) ==
    /\ sensObs < MaxSensSamples
    /\ bdLo' = BDUpdate(bdLo, energy, sensObs * StepMs, SensLo, 0)
    /\ bdHi' = BDUpdate(bdHi, energy, sensObs * StepMs, SensHi, 0)
    /\ sensObs' = sensObs + 1
    /\ UNCHANGED <<beatVars, spikeVars, motionVars, presetVars, pathVars>>
    /\ UNCHANGED <<loopVars, pageVars>>

----------------------------------------------------------------------------
(* Motion path: the four paths *)

\* one full cycle of the motion phase
PhaseOne == 1000000
\* blend factor 1.0 (thousandths)
BlendOne == 1000
\* one pixel (offsets are kept in hundredths of a pixel)
PixelOne == 100

Modes == {"off", "circle", "square", "triangle"}

\* sin of a half turn, h in 0..5000 ten-thousandths of a cycle, in thousandths
\* (Bhaskara's rational approximation of Math.sin, within 0.002)
SinHalf(h) ==
    LET q == h * (10000 - 2 * h)
    IN  (32 * q) \div ((500000000 - 8 * q) \div 1000)

\* Math.sin(t * 2 pi), t in ten-thousandths of a cycle, in thousandths
Sin(t) ==
    LET tt == t % 10000
    IN  IF tt < 5000 THEN SinHalf(tt) ELSE -SinHalf(tt - 5000)
\* Math.cos(t * 2 pi)
Cos(t) == Sin((t + 2500) % 10000)

\* the vertices of the square and of the triangle
SquareP(r) == << <<r, -r>>, <<r, r>>, <<-r, r>>, <<-r, -r>>, <<r, -r>> >>
TriangleP(r) == << <<0, -r>>, <<r, r>>, <<-r, r>>, <<0, -r>> >>

\* const t = ((phase % 1) + 1) % 1
MotionTRaw(phase) == phase
MotionT(phase) == ((phase % PhaseOne) + PhaseOne) % PhaseOne

\* const seg = Math.floor(s), for s sides (in millionths) along a polygon
PolySeg(s) == s \div PhaseOne

\* the point at s sides (in millionths) along the polygon P
PolyPos(P, s) ==
    LET seg == PolySeg(s)
        u == (s % PhaseOne) \div 100
        p0 == P[seg + 1]
        p1 == P[seg + 2]
    IN  <<lerp(p0[1], p1[1], u, 10000), lerp(p0[2], p1[2], u, 10000)>>

\* motionPos(mode, phase, r)
motionPos(mode, phase, r) ==
    LET t == MotionT(phase)
    IN  CASE mode = "off" -> <<0, 0>>
          [] mode = "circle" ->
                <<(r * Cos(t \div 100)) \div 1000, (r * Sin(t \div 100)) \div 1000>>
          [] mode = "square" -> PolyPos(SquareP(r), t * 4)
          [] OTHER -> PolyPos(TriangleP(r), t * 3)

\* the number of sides of the path of a mode (0: the path has no vertex table)
PathSides(mode) == CASE mode = "square" -> 4 [] mode = "triangle" -> 3 [] OTHER -> 0

\* the segment index motionPos(mode, phase, r) computes
MotionSeg(mode, phase) == PolySeg(MotionT(phase) * PathSides(mode))

\* the vertex table motionPos indexes with seg and seg+1 (0-based)
PathTable(mode, r) == IF mode = "square" THEN SquareP(r) ELSE TriangleP(r)

\* motionPos(mode, phase, r) as the caller sees it: reading a vertex that is
\* not in the table gives undefined, and reading its x throws
MotionPosResult(mode, phase, r) ==
    LET seg == MotionSeg(mode, phase)
    IN  IF PathSides(mode) > 0 /\ ~(seg >= 0 /\ seg + 1 < Len(PathTable(mode, r)))
        THEN [ok |-> FALSE, seg |-> seg, pos |-> <<0, 0>>]
        ELSE [ok |-> TRUE, seg |-> seg, pos |-> motionPos(mode, phase, r)]

\* phases handed to motionPos, millionths of a cycle: in [0,1) as the blender
\* keeps them, and also below 0 and from 1 on
PathPhases == {62500 * k - 2 * PhaseOne : k \in 0 .. (16 * MaxPathTurns)}
                 \cup {999000, 999999, -1}
\* radii handed to motionPos, hundredths of a pixel
PathRadii == {10000, 12960}

PathObs0 == [done |-> FALSE, mode |-> "off", phase |-> 0, r |-> 0,
             res |-> [ok |-> TRUE, seg |-> 0, pos |-> <<0, 0>>]]
IdlePath == pathObs = PathObs0
InitPath ==
    \E md \in Modes, ph \in PathPhases, r \in PathRadii :
        pathObs = [PathObs0 EXCEPT !.mode = md, !.phase = ph, !.r = r]

\* p = motionPos(mode, phase, r)
MotionPosCall ==
    /\ ~pathObs.done
    /\ pathObs' = [pathObs EXCEPT !.done = TRUE,
                      !.res = MotionPosResult(pathObs.mode, pathObs.phase, pathObs.r)]
    /\ UNCHANGED <<beatVars, spikeVars, sensVars, motionVars, presetVars>>
    /\ UNCHANGED <<loopVars, pageVars>>

----------------------------------------------------------------------------
(* Motion path: blending *)

\* motionBlendDurationSec() * 1000
motionBlendDurationMs(ts) == lerp(1800, 100, clamp(ts, 0, 100), 100)

\* easeInOutCubic(t), t and the result in thousandths
easeInOutCubic(t) ==
    IF t < 500
    THEN (4 * t * t * t) \div 1000000
    ELSE LET w == 2000 - 2 * t
         IN  BlendOne - ((w * w * w + 1999999) \div 2000000)

\* cps = lerp(0, 0.22, clamp(presetSpeed/100, 0, 1)), millionths of a cycle per second
MotionCps(speed) == lerp(0, 220000, clamp(speed, 0, 100), 100)

\* the phase advance of a frame of dt ms that never wraps
NextPhaseNoWrap(phase, speed, dt) == phase + Rnd(dt * MotionCps(speed), 1000)

\* motionPhase = (motionPhase + dt * cps) % 1
NextPhase(phase, speed, dt) == (phase + Rnd(dt * MotionCps(speed), 1000)) % PhaseOne

\* r = 0.18 * Math.min(visualW/DPR, H/DPR)
MotionR(v) == Rnd(18 * PixelOne * Min(v.visualW \div v.DPR, v.H \div v.DPR), 100)

\* blend = easeInOutCubic(clamp((tNow - motionBlendStart)/dur, 0, 1)), or 1
\* when no blend is in progress
MotionBlend(blending, tNow, start, ts) ==
    IF blending
    THEN easeInOutCubic(
           clamp(((tNow - start) * BlendOne) \div motionBlendDurationMs(ts), 0, BlendOne))
    ELSE BlendOne

\* if (blend >= 1) motionFromMode = motionToMode
FromAfter(from, to, blending, blend) ==
    IF blending /\ blend >= BlendOne THEN to ELSE from

\* if (blend >= 1) motionBlending = false
BlendingAfter(blending, blend) == blending /\ ~(blend >= BlendOne)

\* { x: lerp(from.x, to.x, blend), y: lerp(from.y, to.y, blend) }
BlendOffset(from, to, blend) ==
    <<lerp(from[1], to[1], blend, BlendOne), lerp(from[2], to[2], blend, BlendOne)>>

\* setMotionMode that restarts the blend also when the target is unchanged
SetModeAlways(st, next, tNow) ==
    [from |-> st.to, to |-> next, start |-> tNow, blending |-> TRUE]

\* setMotionMode(next) on the blend state st at time tNow
SetMode(st, next, tNow) ==
    IF next = st.to
    THEN st
    ELSE [from |-> st.to, to |-> next, start |-> tNow, blending |-> TRUE]

BlendState ==
    [from |-> motionFromMode, to |-> motionToMode,
     start |-> motionBlendStart, blending |-> motionBlending]

----------------------------------------------------------------------------
(* Preset engine: drawPreset *)

\* Units of the persistent accumulators: v, _sqSpin and _triSpin in 1/360000
\* (every per-frame increment presetSpeed/k is a whole number of them), m and
\* the drawable width and height in 1/120 of a world unit, c in 1/1000,
\* spotlight positions in 1/100 of a world unit, Math.random() in 1/100.
VOne == 360000
MOne == 120
COne == 1000
RandOne == 100

presetNames ==
    <<"Ring (sin)", "Ring (rot)", "3 Rings", "Rand Lines", "Rand Ring", "Sinus",
      "Sin Blocks", "Cross", "Discoball", "Rand Circles", "Rand Rings", "Scan |",
      "Scan -", "2 Scan", "PingPong", "Mouse Spot", "Multi |", "Multi -",
      "Sin Multi |", "Sin Multi -", "Half Arc", "Sin + Rays", "Rot Lines", "Solid",
      "4 Scan", "4 Rot", "4 Rings", "Crazy Rings", "Ring Scan", "Tunnel Rect",
      "Dot Grid", "Quad LED", "Circle Spin", "Square Spin", "Triangle Spin">>

\* presetCount(): window.presetNames is an array, so its length
presetCount == Len(presetNames)

\* the ids drawPreset has a case for
PresetIds == 0 .. 34

\* presetSize: 50, and the loop keeps it there while BPM mode is off
presetSize == 50

\* results of one Math.random() call, in hundredths
Rands == {0, 99}
\* the second random number of a call that draws several
Rand2(u) == RandOne - 1 - u

\* the drawable width visualW/DPR and height H/DPR, in 1/120
WorldW(vw) == (vw.visualW * MOne) \div vw.DPR
WorldH(vw) == (vw.H * MOne) \div vw.DPR

\* the number of integers f >= 0 with f < x/step (x in 1/120): a for loop
LoopCount(x, step) == IF x <= 0 THEN 0 ELSE (x + step * MOne - 1) \div (step * MOne)

\* Math.floor(lo + Math.random()*span), span in 1/120
RandFloor(lo, span, u) == (lo * MOne * RandOne + u * span) \div (MOne * RandOne)

\* the re-randomization interval of the randomized presets, doubled (ms/2):
\* (presetSpeed===0) ? 1e9 : (1000 - k*presetSpeed), with k = k2/2
RandInterval2(speed, k2) == IF speed = 0 THEN 2 * 1000000000 ELSE 2000 - k2 * speed

\* nowMs() - timeRand >= interval
RandDue(tNow, timeRand, speed, k2) ==
    (tNow - timeRand) >= (RandInterval2(speed, k2) + 1) \div 2

\* number of circles Rand Circles and Rand Rings draw and re-randomize
RandCount == (presetSize + 10) \div 10

\* ranX, ranY are kept as two runs of entries: lo stands for the entries
\* 0..RandCount-1 (those Rand Circles and Rand Rings rewrite) and hi for the
\* other entries up to 999; each run holds the coordinates of its first entry
\* and the routine that wrote the run.
RanRun(by, x, y) == [by |-> by, x |-> x, y |-> y]

\* initDiscoball(): every entry is Math.floor((rng()*2-1) * (0.71*visualW/DPR))
DiscoCoord(vw, u) == ((2 * u - RandOne) * 71 * WorldW(vw)) \div (RandOne * 100 * MOne)
initDiscoball(vw, u) ==
    [lo |-> RanRun("disco", DiscoCoord(vw, u), DiscoCoord(vw, Rand2(u))),
     hi |-> RanRun("disco", DiscoCoord(vw, Rand2(u)), DiscoCoord(vw, u))]

\* the rewrite of the first RandCount entries by Rand Circles / Rand Rings:
\* rad = (300-2.7*presetSize)/2; Math.floor(rad + Math.random()*(w-2*rad))
RandCircleCoord(ext, u) ==
    LET rad20 == 10 * 300 - 27 * presetSize    \* rad in 1/20
    IN  (rad20 * 6 * RandOne + u * (ext - rad20 * 12)) \div (MOne * RandOne)

\* Kreis.step(): one ping-pong ball bounces off the borders and moves on
BallR == 50 * ((300 * 100 + (40 - 300) * clamp(presetSize + 1, 0, 100)) \div 100)
KreisStep(k, vw, speed) ==
    LET w == (vw.visualW * 100) \div vw.DPR
        h == (vw.H * 100) \div vw.DPR
        x == IF k.posX <= BallR THEN BallR
             ELSE IF k.posX >= w - BallR THEN w - BallR ELSE k.posX
        sx == IF k.posX <= BallR \/ k.posX >= w - BallR THEN -k.spdX ELSE k.spdX
        y == IF k.posY <= BallR THEN BallR
             ELSE IF k.posY >= h - BallR THEN h - BallR ELSE k.posY
        sy == IF k.posY <= BallR \/ k.posY >= h - BallR THEN -k.spdY ELSE k.spdY
        moveScale == clamp(speed + 1, 0, 100)
    IN  [posX |-> x + moveScale * sx, posY |-> y + moveScale * sy,
         spdX |-> sx, spdY |-> sy]

\* number of balls PingPong steps
BallCount == clamp(lerp(4, 12, clamp(presetSize, 0, 100), 100), 4, 12)

\* v after one frame of Ring (sin): presetSpeed/360000 is added once per dot
RingSinFrozen(v0, speed) == v0
RingSinAfter(v0, speed) == v0 + 18 * speed

\* the angle i*v of dot i of Ring (sin) in a frame that starts with v = v0:
\* i dots have then added their increment
RingSinAngle(i, v0, speed) == i * (v0 + i * speed)

\* m after a scroll step: m += inc; if (m >= limit) m = wrapTo
ScrollNoWrap(m0, inc, limit, wrapTo) == m0 + inc
Scroll(m0, inc, limit, wrapTo) == IF m0 + inc >= limit THEN wrapTo ELSE m0 + inc

\* the whole-shape angle of Square Spin / Triangle Spin after its frame:
\* += (presetSpeed/60000) * 20
SpinAfter(s0, speed) == s0 + 120 * speed

\* The persistent state after the routine of preset idx (0..34) has drawn one
\* frame. P: the persistent state before; E: the drawable size w, h (1/120),
\* the view vw, presetSpeed, nowMs(), the random numbers u of the frame and
\* multiColor.
PresetRoutine(idx, P, E) ==
    LET s == E.speed
        margin == 50 * MOne
    IN  CASE idx = 0 -> [P EXCEPT !.v = RingSinAfter(P.v, s)]
          [] idx = 1 -> [P EXCEPT !.v = @ + 180 * s]
          [] idx = 2 -> [P EXCEPT !.v = @ + 120 * s]
          [] idx = 3 ->
               IF RandDue(E.now, P.timeRand, s, 20)
               THEN [P EXCEPT !.timeRand = E.now,
                              !.a = RandFloor(50, E.w - 100 * MOne, E.u),
                              !.b_ = RandFloor(50, E.h - 100 * MOne, E.u),
                              !.c = COne * RandFloor(50, E.w - 100 * MOne, Rand2(E.u)),
                              !.d = RandFloor(50, E.h - 100 * MOne, Rand2(E.u))]
               ELSE P
          [] idx = 4 ->
               IF RandDue(E.now, P.timeRand, s, 20)
               THEN [P EXCEPT !.timeRand = E.now,
                              !.a = RandFloor(150, E.w - 300 * MOne, E.u),
                              !.b_ = RandFloor(150, E.h - 300 * MOne, E.u),
                              !.c = (Rand2(E.u) * 6283) \div RandOne]
               ELSE P
          [] idx = 5 -> [P EXCEPT !.v = @ + LoopCount(E.w, 16) * 4 * s]
          [] idx = 6 -> [P EXCEPT !.v = @ + LoopCount(E.w, 90) * 24 * s]
          [] idx = 7 -> [P EXCEPT !.v = @ + 360 * s]
          [] idx = 8 -> [P EXCEPT !.v = @ + 72 * s]
          [] idx \in {9, 10} ->
               IF RandDue(E.now, P.timeRand, s, 19)
               THEN [P EXCEPT !.timeRand = E.now,
                              !.ran.lo = RanRun("rand", RandCircleCoord(E.w, E.u),
                                                RandCircleCoord(E.h, Rand2(E.u)))]
               ELSE P
          [] idx \in {11, 12, 13} -> [P EXCEPT !.v = @ + 360 * s]
          [] idx = 14 ->
               [P EXCEPT !.spot = [i \in DOMAIN P.spot |->
                                     IF i < BallCount THEN KreisStep(P.spot[i], E.vw, s)
                                     ELSE P.spot[i]]]
          [] idx = 15 -> P
          [] idx = 16 -> [P EXCEPT !.m = Scroll(P.m, 40 * s, E.w - margin, -margin)]
          [] idx = 17 -> [P EXCEPT !.m = Scroll(P.m, 40 * s, E.h - margin, -margin)]
          [] idx = 18 -> [P EXCEPT !.v = @ + 72 * s,
                                   !.m = Scroll(P.m, 30 * s, E.w - margin, -margin)]
          [] idx = 19 -> [P EXCEPT !.v = @ + 72 * s,
                                   !.m = Scroll(P.m, 30 * s, E.h - margin, -margin)]
          [] idx = 20 ->
               IF P.v + 18000 * s >= 100 * VOne
               THEN [P EXCEPT !.v = 0,
                              !.a = (E.u * 21) \div RandOne,
                              !.b_ = (Rand2(E.u) * 21) \div RandOne,
                              !.c = COne * RandFloor(350, Max(MOne, E.h - 400 * MOne), E.u)]
               ELSE [P EXCEPT !.v = @ + 18000 * s]
          [] idx = 21 -> [P EXCEPT !.v = @ + LoopCount(E.w, 16) * 4 * s]
          [] idx = 22 -> [P EXCEPT !.v = @ + 120 * s,
                                   !.m = Scroll(P.m, MOne, E.w - margin, -margin)]
          [] idx = 23 -> P
          [] idx \in {24, 25} -> [P EXCEPT !.v = @ + s]
          [] idx = 26 -> [P EXCEPT !.v = @ + 90 * s]
          [] idx = 27 -> [P EXCEPT !.v = @ + 18 * s]
          [] idx = 28 -> [P EXCEPT !.v = @ + 450 * s]
          [] idx = 29 -> [P EXCEPT !.m = Scroll(P.m, 3 * s, 220 * MOne, 0)]
          [] idx = 30 -> [P EXCEPT !.v = @ + 300 * s]
          [] idx = 31 -> [P EXCEPT !.v = @ + (432 * s - 21600)]
          [] idx = 32 -> [P EXCEPT !.v = @ + 180 * s]
          [] idx = 33 -> [P EXCEPT !.v = @ + 180 * s, !.sqSpin = SpinAfter(@, s)]
          [] idx = 34 -> [P EXCEPT !.v = @ + 180 * s, !.triSpin = SpinAfter(@, s)]

\* The number of shapes the routine of preset idx draws in one frame (calls
\* of fillCircleWorld, strokeLineWorld, arcWorld, ctx.fillRect, ctx.fill,
\* ctx.stroke, fillTinyDotsBatch, fillCirclesBatch, strokeRectCenteredWorld).
\* Quad LED is counted for Color A blue and Color B white.
PresetShapes(idx, E) ==
    LET two == IF E.multi THEN 2 ELSE 1
    IN  CASE idx \in {0, 1} -> 18
          [] idx = 2 -> 54
          [] idx \in {3, 11, 12} -> IF E.multi THEN 3 ELSE 1
          [] idx \in {4, 32} -> IF E.multi THEN 8 ELSE 1
          [] idx \in {5, 21} -> LoopCount(E.w, 16)
          [] idx = 6 -> 2 * LoopCount(E.w, 90)
          [] idx \in {7, 13} -> IF E.multi THEN 20 ELSE 2
          [] idx \in {8, 14, 15, 33, 34} -> two
          [] idx \in {9, 10} -> RandCount
          [] idx \in {16, 17, 18, 19} -> 9
          [] idx \in {20, 23, 29} -> 1
          [] idx = 22 -> 34
          [] idx \in {24, 25} -> 4
          [] idx \in {26, 27} -> 72
          [] idx = 28 -> 2
          [] idx = 30 -> 100
          [] idx = 31 -> 3 * 20 * (IF E.multi THEN 3 ELSE 1)

\* switch(idx): an id without a case takes the default branch, which does
\* nothing
PresetSwitchWrapped(idx, P, E) ==
    [st |-> PresetRoutine(idx % 35, P, E), shapes |-> PresetShapes(idx % 35, E)]
PresetSwitch(idx, P, E) ==
    IF idx \in PresetIds
    THEN [st |-> PresetRoutine(idx, P, E), shapes |-> PresetShapes(idx, E)]
    ELSE [st |-> P, shapes |-> 0]

\* drawPreset(idx, feats, motion): nothing happens while onoff is false
drawPresetUnguarded(idx, P, E) == PresetSwitch(idx, P, E)
drawPreset(idx, P, E) ==
    IF ~E.onoff THEN [st |-> P, shapes |-> 0] ELSE PresetSwitch(idx, P, E)

\* the persistent values the routine of preset j reads or writes
Uses(j) ==
    CASE j \in {0, 1, 2, 5, 6, 7, 11, 12, 13, 21, 24, 25, 26, 27, 28, 30, 31, 32} -> {"v"}
      [] j = 3 -> {"a", "b_", "c", "d", "timeRand"}
      [] j = 4 -> {"a", "b_", "c", "timeRand"}
      [] j = 8 -> {"v", "ran"}
      [] j \in {9, 10} -> {"ran", "timeRand"}
      [] j = 14 -> {"spot"}
      [] j \in {15, 23} -> {}
      [] j \in {16, 17, 29} -> {"m"}
      [] j \in {18, 19, 22} -> {"v", "m"}
      [] j = 20 -> {"v", "a", "b_", "c"}
      [] j = 33 -> {"v", "sqSpin"}
      [] j = 34 -> {"v", "triSpin"}

\* the presets that scroll with m, and the extent each scrolls along (1/120)
ScrollPresets == {16, 17, 18, 19, 22}
ScrollExtent(id, vw) == IF id \in {17, 19} THEN WorldH(vw) ELSE WorldW(vw)

\* the presets with randomized endpoints or centres
RandomizedPresets == {3, 4, 9, 10}

\* the persistent values that differ between P and Q
Changed(P, Q) == {f \in DOMAIN P : P[f] # Q[f]}

----------------------------------------------------------------------------
(* Preset engine: the state, selectPreset and the strobe *)

\* 21 ping-pong balls, constructed at random places with random speeds
SpotlightStart(vw) ==
    LET w == (vw.visualW * 100) \div vw.DPR
        h == (vw.H * 100) \div vw.DPR
    IN  [i \in 0 .. 20 |->
           [posX |-> 20000 + (((37 * i) % 100) * Max(100, w - 40000)) \div 100,
            posY |-> 20000 + (((53 * i) % 100) * Max(100, h - 40000)) \div 100,
            spdX |-> 10 + ((7 * i) % 20),
            spdY |-> 10 + ((11 * i) % 20)]]

\* the new v of selectPreset: 0.2 + Math.random()*0.8
SelectV(u) == (2 * VOne) \div 10 + (u * 8 * VOne) \div (10 * RandOne)

\* the persistent accumulators once the script has run: its self tests end
\* with selectPreset(8), selectPreset(999), selectPreset(-5), which leave
\* preset 0 selected, a random v, m = 0 and a Discoball layout in ranX, ranY
AccStart(vw, u) ==
    [v |-> SelectV(u),
     m |-> 0, a |-> 0, b_ |-> 0, c |-> 0, d |-> 0, timeRand |-> 0,
     sqSpin |-> 0, triSpin |-> 0,
     ran |-> initDiscoball(vw, u), spot |-> SpotlightStart(vw)]

\* what the last frame or call of the preset engine did (for the claims)
NeverDrawn == [seen |-> FALSE, v |-> 0, m |-> 0]
NoAdvance == [v |-> 0, m |-> 0]
PresetObs0 ==
    [op |-> "init", steps |-> 0, id |-> 0, idx |-> 0, drawn |-> FALSE, shapes |-> 0,
     pre |-> acc, preNumber |-> 0, resumed |-> FALSE, resume |-> NeverDrawn,
     last |-> [p \in PresetIds |-> NeverDrawn],
     ring |-> [i \in 0 .. 17 |-> 0], prevRing |-> [i \in 0 .. 17 |-> 0],
     ringFrames |-> 0,
     dt |-> 0, adv |-> NoAdvance, again |-> FALSE, prevDt |-> 0, prevAdv |-> NoAdvance,
     threw |-> FALSE, afterThrow |-> FALSE]

PObs(op) ==
    [presetObs EXCEPT !.op = op, !.steps = @ + 1, !.pre = acc,
                      !.preNumber = presetNumber, !.drawn = FALSE, !.shapes = 0,
                      !.resumed = FALSE,
                      !.dt = 0, !.adv = NoAdvance, !.again = FALSE, !.prevDt = 0,
                      !.prevAdv = NoAdvance, !.threw = FALSE, !.afterThrow = FALSE]

IdlePreset ==
    /\ presetNumber = 0
    /\ onoff = TRUE
    /\ presetStrobing = 0
    /\ strobeTime = 0
    /\ multiColor = TRUE
    /\ acc = AccStart(view, 0)
    /\ presetObs = PresetObs0

\* if (presetNumber === 8) initDiscoball(): the layout cache after a switch
\* to preset idx
SelectRanKept(idx, ran, vw, u) == ran
SelectRan(idx, ran, vw, u) == IF idx = 8 THEN initDiscoball(vw, u) ELSE ran

\* selectPreset after the clamp of idx: nothing when idx is the selected
\* preset; otherwise v is randomized, m is reset and Discoball gets a new
\* point cloud
selectPresetBody(number, P, idx, vw, u) ==
    IF idx = number
    THEN [number |-> number, st |-> P]
    ELSE [number |-> idx,
          st |-> [P EXCEPT !.v = SelectV(u), !.m = 0,
                           !.ran = SelectRan(idx, @, vw, u)]]

\* selectPreset(idx): the preset number and the persistent state it leaves
selectPresetUnclamped(number, P, idx, vw, u) == selectPresetBody(number, P, idx, vw, u)
selectPreset(number, P, idx, vw, u) ==
    selectPresetBody(number, P, clamp(idx, 0, presetCount - 1), vw, u)

\* the strobe of loop(): with presetStrobing > 0, onoff flips every
\* 200 - 1.8*presetStrobing ms; otherwise it is true
StrobeDue(tNow, strobing) ==
    strobing > 0 /\ (tNow - strobeTime) >= (2000 - 18 * strobing + 9) \div 10
OnoffAfter(tNow, strobing) ==
    IF strobing > 0
    THEN (IF StrobeDue(tNow, strobing) THEN ~onoff ELSE onoff)
    ELSE TRUE

\* the arguments and globals one drawPreset call sees
DrawEnv(vw, tNow, u, on) ==
    [w |-> WorldW(vw), h |-> WorldH(vw), vw |-> vw, speed |-> presetSpeed,
     now |-> tNow, u |-> u, multi |-> multiColor, onoff |-> on]

----------------------------------------------------------------------------
(* Preset engine: frames, preset switches, direct calls *)

\* presets whose routine calls Math.random()
RandomPresets == {3, 4, 9, 10, 20}
FrameRands(number) == IF number \in RandomPresets THEN Rands ELSE {0}

\* what a drawn frame of preset id leaves in the observation
DrawnObs(op, id, on, res) ==
    [PObs(op) EXCEPT
       !.id = id, !.drawn = on, !.shapes = res.shapes,
       !.resumed = on /\ id \in PresetIds /\ presetObs.last[id].seen,
       !.resume = IF id \in PresetIds THEN presetObs.last[id] ELSE NeverDrawn,
       !.last = IF on /\ id \in PresetIds
                THEN [@ EXCEPT ![id] = [seen |-> TRUE, v |-> res.st.v, m |-> res.st.m]]
                ELSE @,
       !.prevRing = presetObs.ring,
       !.ring = IF on /\ id = 0
                THEN [i \in 0 .. 17 |-> RingSinAngle(i, acc.v, presetSpeed)]
                ELSE @,
       !.ringFrames = IF on /\ id = 0 THEN @ + 1 ELSE 0]

\* the ways a drawPreset call can end: it returns, or a drawing call throws
\* before the routine's first write or after its last
Faults == {"none", "start", "end"}

\* requestAnimationFrame(loop) is the first statement of loop(): the next
\* call is scheduled whether or not the rest of the frame throws
LoopScheduledAtEnd(fault) == fault = "none"
LoopScheduled(fault) == fault \in Faults

\* the part of loop() from the strobe to drawPreset, at time tNow in view vw:
\* a frame with onoff false returns before drawPreset. dt is the frame's
\* elapsed time, which drawPreset is not given.
LoopDraw(tNow, dt, vw, u, fault) ==
    LET on == OnoffAfter(tNow, presetStrobing)
        full == drawPreset(presetNumber, acc, DrawEnv(vw, tNow, u, on))
        res == IF on /\ fault # "start" THEN full ELSE [st |-> acc, shapes |-> 0]
        ag == /\ presetObs.op = "frame"
              /\ presetObs.drawn
              /\ ~presetObs.threw
              /\ presetObs.id = presetNumber
    IN  /\ fault # "none" => on
        /\ onoff' = on
        /\ strobeTime' = IF StrobeDue(tNow, presetStrobing) THEN tNow ELSE strobeTime
        /\ acc' = res.st
        /\ presetObs' = [DrawnObs("frame", presetNumber, on, res) EXCEPT
              !.dt = dt,
              !.adv = [v |-> res.st.v - acc.v, m |-> res.st.m - acc.m],
              !.again = ag,
              !.prevDt = IF ag THEN presetObs.dt ELSE 0,
              !.prevAdv = IF ag THEN presetObs.adv ELSE NoAdvance,
              !.threw = fault # "none",
              !.afterThrow = presetObs.op = "frame" /\ presetObs.threw]
        /\ UNCHANGED <<presetNumber, presetStrobing, multiColor>>

\* a preset button, a BLAIZE_CMD selectPreset message or the BPM mode:
\* selectPreset(idx)
SelectPreset(idx, u) ==
    LET r == selectPreset(presetNumber, acc, idx, view, u)
    IN  /\ presetObs.steps < MaxPresetSteps
        /\ presetNumber' = r.number
        /\ acc' = r.st
        /\ presetObs' = [PObs("selectPreset") EXCEPT !.idx = idx]
        /\ UNCHANGED <<onoff, presetStrobing, strobeTime, multiColor>>
        /\ UNCHANGED <<pathVars, beatVars, spikeVars, sensVars, motionVars>>
        /\ UNCHANGED <<loopVars, pageVars>>

\* ui.strobe 'input': presetStrobing = +e.target.value
SetStrobe(val) ==
    /\ presetObs.steps < MaxPresetSteps
    /\ presetStrobing' = val
    /\ presetObs' = PObs("strobe")
    /\ UNCHANGED <<presetNumber, onoff, strobeTime, multiColor, acc>>
    /\ UNCHANGED <<pathVars, beatVars, spikeVars, sensVars, motionVars>>
    /\ UNCHANGED <<loopVars, pageVars>>

\* a call drawPreset(id, feats, motion) in the state the page is in
DirectDraw(id, u) ==
    LET res == drawPreset(id, acc, DrawEnv(view, now, u, onoff))
    IN  /\ presetObs.steps < MaxDraws
        /\ acc' = res.st
        /\ presetObs' = DrawnObs("draw", id, onoff /\ id \in PresetIds, res)
        /\ UNCHANGED <<presetNumber, onoff, presetStrobing, strobeTime, multiColor>>
        /\ UNCHANGED motionVars
        /\ UNCHANGED <<pathVars, beatVars, spikeVars, sensVars>>
        /\ UNCHANGED <<loopVars, pageVars>>

----------------------------------------------------------------------------
(* Motion path: the window, the controls and the frames *)

\* the windows the page is shown in: innerWidth, innerHeight, devicePixelRatio
Windows == {[w |-> 1280, h |-> 720, dpr |-> 1], [w |-> 640, h |-> 480, dpr |-> 2]}
\* width of the controls panel when it is shown
PanelRectW == 500
\* the mouse is idle after 5000 ms
IdleMs == 5000
\* positions of the Speed slider
Speeds == {0, 30, 100}
\* positions of the Motion Blend slider: blends of 1800 ms and of 100 ms
TransitionSpeeds == {0, 100}
\* time from the last step to the next frame: a 16 ms frame, or a stall
MotionGaps == {16, 2500}
\* time from the last step to an input event
EventGaps == {4}
\* phases the frames of a running application have left behind
PhaseStarts == {0, 620000, 995000}

\* resize() for window w and the panel hidden or shown
ResizedView(w, hidden) ==
    LET dpr == Max(1, Min(2, w.dpr))
        ww == w.w * dpr
        hh == w.h * dpr
        pw == IF hidden THEN 0 ELSE PanelRectW
        gap == (IF pw # 0 THEN pw + 24 ELSE 0) * dpr
    IN  [DPR |-> dpr, W |-> ww, H |-> hh, panelW |-> pw,
         visualW |-> Max(320 * dpr, ww - gap), hidden |-> hidden]

MotionObs0 ==
    [op |-> "init", arg |-> "off", pre |-> BlendState, steps |-> 0,
     offset |-> <<0, 0>>, prevOffset |-> <<0, 0>>, dt |-> 0, gap |-> 0,
     phaseBefore |-> motionPhase, blend |-> BlendOne, r |-> MotionR(view),
     midBlend |-> FALSE, afterFrame |-> FALSE, settled |-> FALSE]

\* the state the script leaves behind: the self tests leave transitionSpeed at 100
IdleMotion ==
    /\ now = 0
    /\ lastFrame = 0
    /\ lastMouseMovedTime = 0
    /\ win = [w |-> 1280, h |-> 720, dpr |-> 1]
    /\ view = ResizedView(win, FALSE)
    /\ presetSpeed = 30
    /\ transitionSpeed = 100
    /\ motionPhase = 0
    /\ motionFromMode = "off"
    /\ motionToMode = "off"
    /\ motionBlendStart = 0
    /\ motionBlending = FALSE
    /\ motionObs = MotionObs0

\* the same with the two sliders in any position and with the phase that
\* earlier frames (with the path off) have left
InitMotion ==
    /\ now = 0
    /\ lastFrame = 0
    /\ lastMouseMovedTime = 0
    /\ win = [w |-> 1280, h |-> 720, dpr |-> 1]
    /\ view = ResizedView(win, FALSE)
    /\ presetSpeed \in Speeds
    /\ transitionSpeed \in TransitionSpeeds
    /\ motionPhase \in PhaseStarts
    /\ motionFromMode = "off"
    /\ motionToMode = "off"
    /\ motionBlendStart = 0
    /\ motionBlending = FALSE
    /\ motionObs = MotionObs0

Obs(op, arg) ==
    [motionObs EXCEPT !.op = op, !.arg = arg, !.pre = BlendState,
                      !.steps = @ + 1, !.midBlend = FALSE, !.afterFrame = FALSE,
                      !.settled = FALSE]

\* ui.motionSel 'change': setMotionMode(ui.motionSel.value), wait ms after the
\* last step
SetMotionMode(next, wait) ==
    LET st == SetMode(BlendState, next, now + wait)
    IN  /\ motionObs.steps < MaxMotionSteps
        /\ now' = now + wait
        /\ motionFromMode' = st.from
        /\ motionToMode' = st.to
        /\ motionBlendStart' = st.start
        /\ motionBlending' = st.blending
        /\ motionObs' = [Obs("setMotionMode", next) EXCEPT
              !.midBlend = /\ motionObs.op = "frame"
                           /\ motionBlending
                           /\ next # motionToMode]
        /\ UNCHANGED <<lastFrame, lastMouseMovedTime, win, view, presetSpeed,
                       transitionSpeed, motionPhase>>
        /\ UNCHANGED <<pathVars, beatVars, spikeVars, sensVars, presetVars>>
        /\ UNCHANGED <<loopVars, pageVars>>

\* window 'resize': resize() in window w
ResizeStep(w) ==
    /\ win' = w
    /\ view' = ResizedView(w, view.hidden)
    /\ motionBlending' = FALSE
    /\ motionObs' = Obs("resize", "")
    /\ UNCHANGED <<now, lastFrame, lastMouseMovedTime, presetSpeed, transitionSpeed,
                   motionPhase, motionFromMode, motionToMode, motionBlendStart>>
    /\ UNCHANGED <<presetNumber, onoff, presetStrobing, strobeTime, multiColor, acc>>
    /\ UNCHANGED <<pathVars, beatVars, spikeVars, sensVars>>
    /\ UNCHANGED <<loopVars, pageVars>>

Resize(w) ==
    /\ motionObs.steps < MaxMotionSteps
    /\ ResizeStep(w)
    /\ UNCHANGED presetObs

\* the same resize, counted among the steps of the preset engine
PresetResize(w) ==
    /\ presetObs.steps < MaxPresetSteps
    /\ ResizeStep(w)
    /\ presetObs' = PObs("resize")

\* 'mousemove': lastMouseMovedTime = nowMs(); unless the pop-out is open,
\* setPanelHidden(false), which resizes when the panel was hidden
MouseMove(wait) ==
    /\ motionObs.steps < MaxMotionSteps
    /\ now' = now + wait
    /\ lastMouseMovedTime' = now + wait
    /\ view' = IF view.hidden /\ popupWin # "open" THEN ResizedView(win, FALSE) ELSE view
    /\ motionBlending' = IF view.hidden /\ popupWin # "open" THEN FALSE ELSE motionBlending
    /\ motionObs' = Obs(IF view.hidden /\ popupWin # "open" THEN "resize" ELSE "mouse", "")
    /\ UNCHANGED <<lastFrame, win, presetSpeed, transitionSpeed, motionPhase,
                   motionFromMode, motionToMode, motionBlendStart>>
    /\ UNCHANGED <<pathVars, beatVars, spikeVars, sensVars, presetVars>>
    /\ UNCHANGED <<loopVars, pageVars>>

\* loop(): one animation frame, gap ms after the last step. A mouse idle for
\* 5000 ms hides the panel, which resizes; then the motion offset is computed.
\* Then the strobe sets onoff and the selected preset is drawn.
\* (Beat DJ and BPM mode are off and no audio is connected: the beat detector
\* is not fed and presetSize stays where it is.)
LoopStep(gap, u, fault) ==
    LET tNow == now + gap
        dt == Min(50, tNow - lastFrame)
        hides == (tNow - lastMouseMovedTime) >= IdleMs /\ ~view.hidden
        v == IF hides THEN ResizedView(win, TRUE) ELSE view
        blending == motionBlending /\ ~hides
        phase == NextPhase(motionPhase, presetSpeed, dt)
        r == MotionR(v)
        from == motionPos(motionFromMode, phase, r)
        to == motionPos(motionToMode, phase, r)
        blend == MotionBlend(blending, tNow, motionBlendStart, transitionSpeed)
    IN  /\ rafPending
        /\ rafPending' = LoopScheduled(fault)
        /\ now' = tNow
        /\ lastFrame' = tNow
        /\ view' = v
        /\ motionPhase' = phase
        /\ motionFromMode' = FromAfter(motionFromMode, motionToMode, blending, blend)
        /\ motionBlending' = BlendingAfter(blending, blend)
        /\ motionObs' = [Obs("frame", "") EXCEPT
              !.prevOffset = motionObs.offset,
              !.offset = BlendOffset(from, to, blend),
              !.dt = dt, !.gap = tNow - lastFrame,
              !.phaseBefore = motionPhase,
              !.blend = blend, !.r = r,
              !.midBlend = motionObs.op = "setMotionMode" /\ motionObs.midBlend /\ ~hides,
              !.afterFrame = motionObs.op = "frame" /\ ~hides,
              !.settled = tNow - motionBlendStart
                            >= motionBlendDurationMs(transitionSpeed)]
        /\ LoopDraw(tNow, dt, v, u, fault)
        /\ UNCHANGED <<lastMouseMovedTime, win, presetSpeed, transitionSpeed,
                       motionToMode, motionBlendStart>>
        /\ UNCHANGED <<pathVars, beatVars, spikeVars, sensVars>>
        /\ UNCHANGED pageVars

\* a frame in which drawPreset returns
FrameStep(gap, u) == LoopStep(gap, u, "none")

Frame(gap) ==
    /\ motionObs.steps < MaxMotionSteps
    /\ \E u \in FrameRands(presetNumber) : FrameStep(gap, u)

\* the same frame, counted among the steps of the preset engine
PresetFrame(gap) ==
    /\ presetObs.steps < MaxPresetSteps
    /\ \E u \in FrameRands(presetNumber) : FrameStep(gap, u)

\* a frame in which a drawing call of drawPreset throws
ThrowingFrame(gap, fault) ==
    /\ presetObs.steps < MaxPresetSteps
    /\ \E u \in FrameRands(presetNumber) : LoopStep(gap, u, fault)

\* one of the 100 consecutive 16 ms frames of Ring (sin)
RingFrame ==
    /\ presetObs.steps < RingFrames
    /\ FrameStep(16, 0)

----------------------------------------------------------------------------
(* The page: beat mode buttons, audio, the pop-out and its messages *)

\* the flags and the detector the buttons and enableBeatDJForAudio work on
Flags ==
    [beatDJ |-> beatDJ, bpmSTLmode |-> bpmSTLmode, beatAutoColor |-> beatAutoColor,
     beatAutoPreset |-> beatAutoPreset, beatCount |-> beatCount, det |-> beatDetector]

\* the click listeners of the main panel wiring
PanelBpmClick(F) == [F EXCEPT !.bpmSTLmode = ~@]
PanelBeatClick(F) == [F EXCEPT !.beatDJ = ~@]
PanelBeatColorClick(F) == [F EXCEPT !.beatAutoColor = ~@]
PanelBeatPresetClick(F) == [F EXCEPT !.beatAutoPreset = ~@]

\* the click listeners registered next to the beat detector
BtnBeatClick(F) ==
    [F EXCEPT !.beatDJ = ~@,
              !.bpmSTLmode = IF ~F.beatDJ THEN FALSE ELSE @,
              !.beatCount = 0,
              !.det = BDReset]
BtnBeatColorClick(F) == [F EXCEPT !.beatAutoColor = ~@]
BtnBeatPresetClick(F) == [F EXCEPT !.beatAutoPreset = ~@]

\* one click on a button: every listener registered on it runs, in the
\* order of registration
Buttons == {"btnBpm", "btnBeat", "btnBeatColor", "btnBeatPreset"}
Click(id, F) ==
    CASE id = "btnBpm" -> PanelBpmClick(F)
      [] id = "btnBeat" -> BtnBeatClick(PanelBeatClick(F))
      [] id = "btnBeatColor" -> BtnBeatColorClick(PanelBeatColorClick(F))
      [] id = "btnBeatPreset" -> BtnBeatPresetClick(PanelBeatPresetClick(F))
      [] OTHER -> F

\* enableBeatDJForAudio({force})
enableBeatDJForAudio(F, force) ==
    [F EXCEPT !.beatDJ = IF force \/ ~F.beatDJ THEN TRUE ELSE @,
              !.bpmSTLmode = IF force \/ ~F.beatDJ THEN FALSE ELSE @,
              !.beatAutoColor = TRUE,
              !.beatAutoPreset = TRUE,
              !.beatCount = 0,
              !.det = BDReset]

\* the 'message' listener: with a pop-out open, a message from any other
\* source is dropped
MessageAccepted(popup, source) == ~(popup = "open" /\ source # "popup")

\* commands of a BLAIZE_CMD message: a click on a button, selectPreset(idx)
Commands ==
    {[type |-> "click", id |-> b, idx |-> 0] : b \in Buttons}
      \cup {[type |-> "selectPreset", id |-> "", idx |-> i] : i \in {1, 8}}

\* what the last step on the page was, and the state before it
PObsPage(op, source) ==
    [op |-> op, steps |-> panelObs.steps + 1,
     pre |-> [beatDJ |-> beatDJ, bpmSTLmode |-> bpmSTLmode,
              beatAutoColor |-> beatAutoColor, beatAutoPreset |-> beatAutoPreset,
              beatCount |-> beatCount, presetNumber |-> presetNumber,
              popupWin |-> popupWin],
     source |-> source]

\* the page once the script has run: loop() has scheduled its next call, no
\* pop-out, both beat modes and the auto flags as declared, no audio
PanelObs0 ==
    [op |-> "init", steps |-> 0,
     pre |-> [beatDJ |-> FALSE, bpmSTLmode |-> FALSE, beatAutoColor |-> TRUE,
              beatAutoPreset |-> TRUE, beatCount |-> 0, presetNumber |-> 0,
              popupWin |-> "none"],
     source |-> "none"]
IdlePage ==
    /\ rafPending = TRUE
    /\ popupWin = "none"
    /\ bpmSTLmode = FALSE
    /\ beatDJ = FALSE
    /\ beatAutoColor = TRUE
    /\ beatAutoPreset = TRUE
    /\ beatCount = 0
    /\ analyser = FALSE
    /\ panelObs = PanelObs0

\* the flags and the detector become F
SetFlags(F) ==
    /\ beatDJ' = F.beatDJ
    /\ bpmSTLmode' = F.bpmSTLmode
    /\ beatAutoColor' = F.beatAutoColor
    /\ beatAutoPreset' = F.beatAutoPreset
    /\ beatCount' = F.beatCount
    /\ beatDetector' = F.det

\* a click on one of the buttons of the main panel
ClickButton(id) ==
    /\ panelObs.steps < MaxPanelSteps
    /\ SetFlags(Click(id, Flags))
    /\ panelObs' = PObsPage(id, "panel")
    /\ UNCHANGED <<beatSens, beatCooldownMs, beatObs, popupWin, analyser>>
    /\ UNCHANGED <<spikeVars, sensVars, motionVars, presetVars, pathVars, loopVars>>

\* Mic or Demo: an audio source is connected, then enableBeatDJForAudio()
ConnectAudio ==
    /\ panelObs.steps < MaxPanelSteps
    /\ analyser' = TRUE
    /\ SetFlags(enableBeatDJForAudio(Flags, FALSE))
    /\ panelObs' = PObsPage("audio", "panel")
    /\ UNCHANGED <<beatSens, beatCooldownMs, beatObs, popupWin>>
    /\ UNCHANGED <<spikeVars, sensVars, motionVars, presetVars, pathVars, loopVars>>

\* setPanelHidden(hidden) from the pop-out's handlers: resize() when the
\* panel's visibility changes
PanelHidden(hidden) ==
    /\ view' = IF view.hidden # hidden THEN ResizedView(win, hidden) ELSE view
    /\ motionBlending' = IF view.hidden # hidden THEN FALSE ELSE motionBlending
    /\ UNCHANGED <<now, lastFrame, lastMouseMovedTime, win, presetSpeed, transitionSpeed,
                   motionPhase, motionFromMode, motionToMode, motionBlendStart, motionObs>>

\* openControlsPopup(): opens the pop-out unless it is open, and hides the panel
OpenPopup ==
    /\ panelObs.steps < MaxPanelSteps
    /\ popupWin # "open"
    /\ popupWin' = "open"
    /\ PanelHidden(TRUE)
    /\ panelObs' = PObsPage("open", "panel")
    /\ UNCHANGED <<bpmSTLmode, beatDJ, beatAutoColor, beatAutoPreset, beatCount, analyser>>
    /\ UNCHANGED <<beatVars, spikeVars, sensVars, presetVars, pathVars, loopVars>>

\* the pop-out is closed; the popupWatch timer then shows the panel again
ClosePopup ==
    /\ panelObs.steps < MaxPanelSteps
    /\ popupWin = "open"
    /\ popupWin' = "closed"
    /\ PanelHidden(FALSE)
    /\ panelObs' = PObsPage("close", "panel")
    /\ UNCHANGED <<bpmSTLmode, beatDJ, beatAutoColor, beatAutoPreset, beatCount, analyser>>
    /\ UNCHANGED <<beatVars, spikeVars, sensVars, presetVars, pathVars, loopVars>>

\* a BLAIZE_CMD message arrives from the pop-out or from another window:
\* applyRemoteCommand(msg.cmd) unless the listener drops the message
Message(source, cmd, u) ==
    LET ok == MessageAccepted(popupWin, source)
        sel == IF ok /\ cmd.type = "selectPreset"
               THEN selectPreset(presetNumber, acc, cmd.idx, view, u)
               ELSE [number |-> presetNumber, st |-> acc]
    IN  /\ panelObs.steps < MaxPanelSteps
        /\ source = "popup" => popupWin # "none"
        /\ SetFlags(IF ok /\ cmd.type = "click" THEN Click(cmd.id, Flags) ELSE Flags)
        /\ presetNumber' = sel.number
        /\ acc' = sel.st
        /\ panelObs' = PObsPage("message", source)
        /\ UNCHANGED <<beatSens, beatCooldownMs, beatObs, popupWin, analyser>>
        /\ UNCHANGED <<onoff, presetStrobing, strobeTime, multiColor, presetObs>>
        /\ UNCHANGED <<spikeVars, sensVars, motionVars, pathVars, loopVars>>

----------------------------------------------------------------------------
(* Specifications *)

IdleParams == beatSens = 70 /\ beatCooldownMs = 160

NextBeat ==
    \/ \E e \in Energies, g \in FrameGaps : BeatUpdate(e, g)
    \/ BeatReset

NextSpike == SpikeSample

NextSens == \E e \in Energies : SensSample(e)

NextMotion ==
    \/ \E g \in MotionGaps : Frame(g)
    \/ \E m \in Modes, w \in EventGaps : SetMotionMode(m, w)
    \/ \E w \in Windows : Resize(w)
    \/ \E w \in EventGaps : MouseMove(w)

\* ids handed to selectPreset: below and above the range, Ring (rot), the
\* scrolling presets and Square Spin
PresetChoices == {-5, 1, 16, 17, 18, 19, 22, 33, 999}
\* positions of the Strobe slider
Strobes == {0, 100}
\* time from the last step to the next frame: a 16 ms frame, or a stall
\* that lets the idle panel hide
PresetGaps == {16, 6000}
\* windows of the preset engine: also a small one
PresetWindows == Windows \cup {[w |-> 400, h |-> 100, dpr |-> 1]}
\* ids handed to drawPreset directly: every preset, and ids without a routine
DrawIds == -1 .. 35
\* values of v, m and the clock that earlier frames have left behind
DrawVs == {(2 * VOne) \div 10, 99 * VOne}
ScrollStarts(vw) == {0, WorldW(vw) - 51 * MOne}
DrawClocks == {5000, 1000000000}

\* the motion blender at rest in window w, at time t
RestIn(w, t) ==
    /\ now = t
    /\ lastFrame = 0
    /\ lastMouseMovedTime = 0
    /\ win = w
    /\ view = ResizedView(win, FALSE)
    /\ transitionSpeed = 100
    /\ motionPhase = 0
    /\ motionFromMode = "off"
    /\ motionToMode = "off"
    /\ motionBlendStart = 0
    /\ motionBlending = FALSE
    /\ motionObs = MotionObs0

\* the preset and scroll position the page starts a run with: Ring (sin) as
\* the script leaves it, or Rot Lines selected and scrolled almost to the end
PresetStarts(vw) ==
    {[number |-> 0, m |-> 0], [number |-> 22, m |-> WorldW(vw) - 51 * MOne]}

\* the page once the script has run, in any of the windows, with the Speed
\* slider in any position
InitPreset ==
    /\ \E w \in PresetWindows : RestIn(w, 0)
    /\ presetSpeed \in Speeds
    /\ onoff = TRUE
    /\ presetStrobing = 0
    /\ strobeTime = 0
    /\ multiColor = TRUE
    /\ \E ps \in PresetStarts(view) :
          /\ presetNumber = ps.number
          /\ acc = [AccStart(view, 0) EXCEPT !.m = ps.m]
    /\ presetObs = [PresetObs0 EXCEPT !.preNumber = presetNumber, !.id = presetNumber]

\* the states a drawPreset call is made in
InitDraw ==
    /\ \E t \in DrawClocks : RestIn([w |-> 1280, h |-> 720, dpr |-> 1], t)
    /\ presetSpeed \in Speeds
    /\ presetNumber = 0
    /\ onoff \in BOOLEAN
    /\ presetStrobing = 0
    /\ strobeTime = 0
    /\ multiColor \in BOOLEAN
    /\ \E v0 \in DrawVs, m0 \in ScrollStarts(view) :
          acc = [AccStart(view, 0) EXCEPT !.v = v0, !.m = m0]
    /\ presetObs = PresetObs0

\* Ring (sin) selected, speed 30, size 50
InitRing ==
    /\ RestIn([w |-> 1280, h |-> 720, dpr |-> 1], 0)
    /\ presetSpeed = 30
    /\ presetNumber = 0
    /\ onoff = TRUE
    /\ presetStrobing = 0
    /\ strobeTime = 0
    /\ multiColor = TRUE
    /\ \E u \in Rands : acc = AccStart(view, u)
    /\ presetObs = PresetObs0

\* presets that use the layout cache, and one that does not
CacheChoices == {0, 8, 9, 10}
\* time from the last step to the next frame: a 16 ms frame, or a second
CacheGaps == {16, 1000}
\* windows the page is resized to: also one of height 0
LayoutWindows == PresetWindows \cup {[w |-> 1280, h |-> 0, dpr |-> 1]}

\* presets switched to while frames throw: a ring, a randomized one, a scroll
LoopChoices == {1, 9, 16}

\* where a message comes from: the pop-out, or any other window
Sources == {"popup", "other"}

\* the page as the script leaves it, or later: an audio source connected,
\* Beat DJ on and the first 0.08 sample counted as a beat
InitPanel ==
    /\ rafPending = TRUE
    /\ popupWin = "none"
    /\ bpmSTLmode = FALSE
    /\ beatAutoColor = TRUE
    /\ beatAutoPreset = TRUE
    /\ beatObs = BeatObs0
    /\ panelObs = PanelObs0
    /\ \/ /\ analyser = FALSE
          /\ beatDJ = FALSE
          /\ beatCount = 0
          /\ beatDetector = BDReset
       \/ /\ analyser = TRUE
          /\ beatDJ = TRUE
          /\ beatCount = 1
          /\ beatDetector = BDUpdate(BDReset, BaselineEnergy, 0, beatSens, beatCooldownMs)

NextPath == MotionPosCall

NextPanel ==
    \/ \E b \in Buttons : ClickButton(b)
    \/ ConnectAudio
    \/ OpenPopup
    \/ ClosePopup
    \/ \E src \in Sources, cmd \in Commands, u \in Rands : Message(src, cmd, u)

NextLoop ==
    \/ \E g \in PresetGaps : PresetFrame(g)
    \/ \E g \in PresetGaps, f \in Faults \ {"none"} : ThrowingFrame(g, f)
    \/ \E i \in LoopChoices, u \in Rands : SelectPreset(i, u)

NextLayout ==
    \/ \E g \in CacheGaps : PresetFrame(g)
    \/ \E i \in CacheChoices, u \in Rands : SelectPreset(i, u)
    \/ \E w \in LayoutWindows : PresetResize(w)

NextPreset ==
    \/ \E g \in PresetGaps : PresetFrame(g)
    \/ \E i \in PresetChoices, u \in Rands : SelectPreset(i, u)
    \/ \E w \in PresetWindows : PresetResize(w)
    \/ \E sv \in Strobes : SetStrobe(sv)

NextDraw == \E id \in DrawIds : \E u \in FrameRands(id) : DirectDraw(id, u)

NextRing == RingFrame

\* each specification starts the part it is about and leaves the others idle
IdleRest == IdlePreset /\ IdlePath
IdleDetectors == IdleParams /\ IdleBeat /\ IdleSpike /\ InitSens
BeatStart  == InitBeat /\ IdleSpike /\ InitSens /\ IdleMotion /\ IdleRest /\ IdlePage
SpikeStart == IdleParams /\ IdleBeat /\ InitSpike /\ InitSens /\ IdleMotion /\ IdleRest /\ IdlePage
SensStart  == IdleParams /\ IdleBeat /\ IdleSpike /\ InitSens /\ IdleMotion /\ IdleRest /\ IdlePage
MotionStart == IdleParams /\ IdleBeat /\ IdleSpike /\ InitSens /\ InitMotion /\ IdleRest /\ IdlePage
PathStart == IdleDetectors /\ IdleMotion /\ IdlePreset /\ InitPath /\ IdlePage
PresetStart == IdleDetectors /\ InitPreset /\ IdlePath /\ IdlePage
DrawStart == IdleDetectors /\ InitDraw /\ IdlePath /\ IdlePage
RingStart == IdleDetectors /\ InitRing /\ IdlePath /\ IdlePage
PanelStart ==
    IdleParams /\ IdleSpike /\ InitSens /\ IdleMotion /\ IdlePreset /\ IdlePath /\ InitPanel

SpecBeat  == BeatStart /\ [][NextBeat]_vars
SpecSpike == SpikeStart /\ [][NextSpike]_vars
SpecSens  == SensStart /\ [][NextSens]_vars
SpecMotion == MotionStart /\ [][NextMotion]_vars
SpecPath == PathStart /\ [][NextPath]_vars
SpecPreset == PresetStart /\ [][NextPreset]_vars
SpecDraw == DrawStart /\ [][NextDraw]_vars
SpecRing == RingStart /\ [][NextRing]_vars
SpecLayout == PresetStart /\ [][NextLayout]_vars
SpecLoop == PresetStart /\ [][NextLoop]_vars
SpecPanel == PanelStart /\ [][NextPanel]_vars

----------------------------------------------------------------------------
(* Claims about the beat detector *)

\* the last call on beatDetector was an update (not a reset, not the start)
Called == beatObs.calls > 0

\* C1: update returns true if and only if the time since the last accepted
\* beat is at least minIntervalMs, the energy is greater than the previous
\* call's energy, greater than the adaptive threshold and greater than the
\* gate; the last-beat time changes exactly when it returns true (to tMs).
C1_HitIffFourConditions ==
    Called =>
      /\ beatObs.hit <=>
            /\ beatObs.t - beatObs.prevBeat >= beatCooldownMs
            /\ beatObs.energy > beatObs.prevEnergy
            /\ beatObs.energy > beatDetector.lastThr
            /\ 100 * beatObs.energy > 12000 * 100 - 9000 * beatSens
      /\ beatObs.hit <=> beatDetector.lastBeat # beatObs.prevBeat
      /\ beatObs.hit => beatDetector.lastBeat = beatObs.t

\* an update returned true on an energy that rose from a non-zero previous
\* sample, after an earlier update had returned true as well
C1_Witness ==
    /\ Called
    /\ beatObs.hit
    /\ Len(beatObs.allHits) >= 2
    /\ beatObs.prevEnergy > 0

\* C2: refractory period: any two update calls on one detector that return
\* true have timestamps at least minIntervalMs apart.
C2_Refractory ==
    \A i, j \in 1..Len(beatObs.hitTimes) :
        i < j => beatObs.hitTimes[j] - beatObs.hitTimes[i] >= beatCooldownMs

\* two beats were accepted with a cooldown of 160 ms, and the last call came
\* within the cooldown of the last beat and was refused
C2_Witness ==
    /\ Len(beatObs.hitTimes) >= 2
    /\ beatCooldownMs = 160
    /\ ~beatObs.hit
    /\ ~beatObs.okTime
    /\ beatObs.energy > beatObs.prevEnergy

\* C4: a detector fed energy 0 on every call never returns true.
C4_ZeroNeverFires ==
    (Called /\ beatObs.allZero) => ~beatObs.hit

\* four zero samples were fed to the most sensitive detector with no cooldown
C4_Witness ==
    /\ beatObs.allZero
    /\ beatObs.calls >= 4
    /\ beatSens = 100
    /\ beatCooldownMs = 0
    /\ beatObs.okTime

\* the largest cooldown the application uses: the slider's max="420"
CooldownMax == 420

\* C5: reset() zeroes ema, dev, the previous sample and the last threshold, and
\* puts the last-beat time so far back that the first update after the reset
\* is never blocked by the refractory test.
C5_ResetClears ==
    /\ (beatObs.wasReset /\ beatObs.calls = 0) =>
          /\ beatDetector.ema = 0
          /\ beatDetector.dev = 0
          /\ beatDetector.prev = 0
          /\ beatDetector.lastThr = 0
          /\ beatObs.t - beatDetector.lastBeat >= CooldownMax
    /\ (beatObs.wasReset /\ beatObs.calls = 1) => beatObs.okTime

\* the first update after a reset returned true less than one cooldown after
\* a beat accepted before the reset
C5_Witness ==
    /\ beatObs.wasReset
    /\ beatObs.calls = 1
    /\ beatObs.hit
    /\ Len(beatObs.allHits) >= 2
    /\ LET n == Len(beatObs.allHits)
       IN  beatObs.allHits[n] - beatObs.allHits[n - 1] < beatCooldownMs

\* the samples at which the spike stream fires
SpikeFires ==
    {0} \cup (IF spikeObs.at = 0 \/ spikeObs.at * StepMs >= SpikeMinInterval
              THEN {spikeObs.at} ELSE {})

\* C3, as amended: update returns true at the first sample of the stream (the
\* step from the fresh detector's zero state up to the baseline) and at the
\* spike sample when the spike is the first sample or comes at least
\* minIntervalMs after it, and at no other sample.
C3_FiresAtStartAndSpike ==
    spikeObs.fired = {j \in SpikeFires : j < spikeObs.i}

\* the whole stream was fed, the spike sat at sample 20 and two samples fired
C3_Witness ==
    /\ spikeObs.i = StreamLen
    /\ spikeObs.at = 20
    /\ spikeObs.fired = {0, 20}

\* C3, as claimed: over the whole stream update returns true exactly once, at
\* the spike sample, and never within the following minIntervalMs.
C3_ExactlyOnceAtSpike ==
    spikeObs.i = StreamLen =>
      /\ spikeObs.fired = {spikeObs.at}
      /\ \A j \in spikeObs.fired :
            j > spikeObs.at => (j - spikeObs.at) * StepMs >= SpikeMinInterval

\* C6: of two detectors fed the same energies, the one with sensitivity 1.0
\* has the lower last threshold after every update.
C6_ThresholdMonotone ==
    sensObs > 0 => bdHi.lastThr < bdLo.lastThr

\* both detectors took three samples and saw the energy vary
C6_Witness ==
    /\ sensObs >= 3
    /\ bdHi.dev > 0
    /\ bdHi.dev = bdLo.dev
    /\ bdHi.ema = bdLo.ema

----------------------------------------------------------------------------
(* Claims about the motion path blender *)

\* C7: setMotionMode(next) changes nothing when next equals the current target
\* mode; otherwise the from-mode becomes the previous target, the target
\* becomes next, the blend start time becomes now and the blending flag true.
C7_SetMotionMode ==
    motionObs.op = "setMotionMode" =>
      IF motionObs.arg = motionObs.pre.to
      THEN BlendState = motionObs.pre
      ELSE /\ motionFromMode = motionObs.pre.to
           /\ motionToMode = motionObs.arg
           /\ motionBlendStart = now
           /\ motionBlending

\* setMotionMode was given a new target while a blend between two different
\* paths was in progress
C7_Witness ==
    /\ motionObs.op = "setMotionMode"
    /\ motionObs.arg # motionObs.pre.to
    /\ motionObs.pre.blending
    /\ motionObs.pre.from # motionObs.pre.to
    /\ motionObs.arg # motionObs.pre.from

\* C8, as claimed: once computeMotionOffset is called at least one blend
\* duration after the blend start, the from-mode equals the target mode, the
\* blending flag is false and the call returns exactly the target path's
\* offset at the current phase (and so for every later call until the next
\* setMotionMode).
C8_SettledOnTarget ==
    (motionObs.op = "frame" /\ motionObs.settled) =>
      /\ motionFromMode = motionToMode
      /\ ~motionBlending
      /\ motionObs.offset = motionPos(motionToMode, motionPhase, motionObs.r)

\* the largest component of the change of the offset over the last frame
OffsetJump ==
    Max(Abs(motionObs.offset[1] - motionObs.prevOffset[1]),
        Abs(motionObs.offset[2] - motionObs.prevOffset[2]))

\* one frame's worth of motion: the fastest path (the square, 8 r per cycle)
\* over the phase step of the frame, plus the steepest eased blend (slope 3)
\* over the time since the previous frame between two points of the paths (at
\* most 2 r apart), plus the rounding of the fixed point arithmetic
FrameMotionBound ==
    LET dur == motionBlendDurationMs(transitionSpeed)
        step == Rnd(motionObs.dt * MotionCps(presetSpeed), 1000)
    IN  (8 * motionObs.r * step) \div PhaseOne
          + (6 * motionObs.r * Min(motionObs.gap, dur)) \div dur
          + 8

\* between two frames with no input event in between the offset moves by no
\* more than one frame's worth of motion
FrameMotionBounded ==
    (motionObs.op = "frame" /\ motionObs.afterFrame) => OffsetJump <= FrameMotionBound

\* C9, as claimed: the offset returned by the first computeMotionOffset after a
\* setMotionMode made while a blend was in progress differs from the offset
\* returned just before the switch by no more than one frame's worth of motion.
C9_NoJumpOnSwitch ==
    (motionObs.op = "frame" /\ motionObs.midBlend) => OffsetJump <= FrameMotionBound

\* C10: after every computeMotionOffset(tNow, dt) the motion phase is in [0,1)
\* and equals (old phase + dt * 0.22 * clamp(presetSpeed/100,0,1)) mod 1,
\* whether or not a blend is in progress; at presetSpeed 0 it does not change.
C10_PhaseAdvance ==
    /\ motionPhase >= 0
    /\ motionPhase < PhaseOne
    /\ motionObs.op = "frame" =>
         /\ motionPhase =
              (motionObs.phaseBefore
                 + (motionObs.dt * 2200 * Max(0, Min(100, presetSpeed))) \div 1000)
              % PhaseOne
         /\ presetSpeed = 0 => motionPhase = motionObs.phaseBefore

\* a frame in the middle of a blend advanced the phase past the end of the
\* cycle, so that it wrapped
C10_Witness ==
    /\ motionObs.op = "frame"
    /\ motionBlending
    /\ motionObs.blend > 0
    /\ motionObs.blend < BlendOne
    /\ presetSpeed > 0
    /\ motionPhase < motionObs.phaseBefore

----------------------------------------------------------------------------
(* Claims about the motion path and the preset engine *)

\* C11: motionPos(mode, phase, r) returns a finite x and y for each of the
\* four modes and every phase: the segment index computed from the phase
\* always selects two existing vertices of the square or triangle table.
C11_MotionPosFinite ==
    pathObs.done =>
      /\ pathObs.res.ok
      /\ PathSides(pathObs.mode) > 0 =>
            /\ pathObs.res.seg >= 0
            /\ pathObs.res.seg + 1 <= PathSides(pathObs.mode)
      /\ Abs(pathObs.res.pos[1]) <= pathObs.r
      /\ Abs(pathObs.res.pos[2]) <= pathObs.r

\* motionPos was called for the square with a phase below 0 that lands on
\* the last side
C11_Witness ==
    /\ pathObs.done
    /\ pathObs.mode = "square"
    /\ pathObs.phase < 0
    /\ pathObs.res.seg = 3
    /\ pathObs.res.pos # <<0, 0>>

\* C12: for every preset id, a drawPreset call made while onoff is false
\* issues no drawing call and leaves every persistent accumulator unchanged.
C12_MasterOffNoOp ==
    (presetObs.op = "draw" /\ ~onoff) =>
      /\ presetObs.shapes = 0
      /\ acc = presetObs.pre

\* drawPreset was called with onoff false for Half Arc at a speed above 0,
\* with v about to wrap
C12_Witness ==
    /\ presetObs.op = "draw"
    /\ ~onoff
    /\ presetObs.id = 20
    /\ presetSpeed > 0
    /\ acc.v = 99 * VOne

\* C13, as claimed: the rotation phase and scroll position a preset has when
\* it is drawn again equal the values it had after its last drawn frame, and
\* selectPreset resets no accumulator other than the point cloud.
C13_ContinuityAcrossSwitches ==
    /\ (presetObs.op = "frame" /\ presetObs.resumed) =>
          /\ presetObs.pre.v = presetObs.resume.v
          /\ presetObs.pre.m = presetObs.resume.m
    /\ presetObs.op = "selectPreset" =>
          [acc EXCEPT !.ran = presetObs.pre.ran] = presetObs.pre

\* C14, as claimed: one drawPreset(id) call leaves unchanged every
\* persistent value that another preset's routine uses.
C14_OnlyOwnState ==
    (presetObs.op = "draw" /\ presetObs.drawn) =>
      \A j \in PresetIds \ {presetObs.id} :
         Uses(j) \cap Changed(presetObs.pre, acc) = {}

\* C15, as claimed: _sqSpin and _triSpin advance on every drawn frame with
\* presetSpeed > 0, whichever preset is the active one.
C15_SpinFreeRuns ==
    (presetObs.op = "frame" /\ presetObs.drawn /\ presetSpeed > 0) =>
      /\ acc.sqSpin > presetObs.pre.sqSpin
      /\ acc.triSpin > presetObs.pre.triSpin

\* C16, as claimed: with presetSpeed 0 a drawn frame of a randomized preset
\* leaves the randomized coordinates and the last-randomized timestamp
\* unchanged, for every value of the clock.
C16_FrozenAtSpeedZero ==
    (/\ presetObs.op = "draw"
     /\ presetObs.drawn
     /\ presetObs.id \in RandomizedPresets
     /\ presetSpeed = 0) =>
      /\ acc.a = presetObs.pre.a
      /\ acc.b_ = presetObs.pre.b_
      /\ acc.c = presetObs.pre.c
      /\ acc.d = presetObs.pre.d
      /\ acc.ran = presetObs.pre.ran
      /\ acc.timeRand = presetObs.pre.timeRand

C18_Dot0Increases ==
    (presetObs.op = "frame" /\ presetObs.ringFrames >= 2) =>
      presetObs.ring[0] > presetObs.prevRing[0]

\* C18, amended: over the 100 consecutive frames of Ring (sin) with speed 30
\* and size 50 the angle of dot 0 stays 0 and the angle of every other dot
\* strictly increases from each frame to the next.
C18_OtherDotsIncrease ==
    (presetObs.op = "frame" /\ presetObs.ringFrames >= 2) =>
      /\ presetObs.ring[0] = 0
      /\ presetObs.prevRing[0] = 0
      /\ \A i \in 1 .. 17 : presetObs.ring[i] > presetObs.prevRing[i]

\* the hundredth consecutive frame of Ring (sin) has been drawn
C18_Witness ==
    /\ presetObs.op = "frame"
    /\ presetObs.ringFrames = 100
    /\ presetSpeed = 30

\* C19: after every selectPreset(idx), presetNumber is an index in
\* [0, presetCount()-1]: an idx above the range selects the last preset and
\* an idx below it selects preset 0.
C19_SelectClamps ==
    /\ presetNumber \in 0 .. (presetCount - 1)
    /\ presetObs.op = "selectPreset" =>
          /\ presetObs.idx > presetCount - 1 => presetNumber = presetCount - 1
          /\ presetObs.idx < 0 => presetNumber = 0
          /\ presetObs.idx \in 0 .. (presetCount - 1) => presetNumber = presetObs.idx

\* selectPreset was called with an idx below 0 while the last preset,
\* selected by an idx above the range, was the active one
C19_Witness ==
    /\ presetObs.op = "selectPreset"
    /\ presetObs.idx < 0
    /\ presetObs.preNumber = presetCount - 1
    /\ presetNumber = 0

\* C20: drawPreset called with an id that has no routine draws nothing and
\* leaves all persistent state unchanged.
C20_UnknownIdNoOp ==
    (presetObs.op = "draw" /\ presetObs.id \notin PresetIds) =>
      /\ presetObs.shapes = 0
      /\ acc = presetObs.pre

\* drawPreset was called with the id after the last preset, with onoff true
\* and a speed above 0
C20_Witness ==
    /\ presetObs.op = "draw"
    /\ presetObs.id = presetCount
    /\ onoff
    /\ presetSpeed > 0

----------------------------------------------------------------------------
(* Claims about the layout cache and the window *)

\* C21: when selectPreset makes Discoball (preset 8) the active preset, the
\* whole layout cache is regenerated by initDiscoball for the current
\* drawable width, and this is the cache the next frame of Discoball draws.
C21_DiscoReseededOnSelect ==
    /\ (presetObs.op = "selectPreset" /\ presetNumber = 8 /\ presetObs.preNumber # 8) =>
          \E u \in Rands : acc.ran = initDiscoball(view, u)
    /\ (presetObs.op = "frame" /\ presetObs.drawn /\ presetObs.id = 8) =>
          /\ presetObs.pre.ran.lo.by = "disco"
          /\ presetObs.pre.ran.hi.by = "disco"

\* selectPreset(8) came while Rand Circles or Rand Rings was active and had
\* rewritten the first entries of the cache
C21_Witness ==
    /\ presetObs.op = "selectPreset"
    /\ presetNumber = 8
    /\ presetObs.preNumber \in {9, 10}
    /\ presetObs.pre.ran.lo.by = "rand"
    /\ acc.ran.lo.by = "disco"

\* C22, as claimed: after every resize the layout cache holds a layout
\* generated by initDiscoball for the new drawable dimensions.
C22_ResizeRegeneratesCache ==
    presetObs.op = "resize" =>
      \E u \in Rands : acc.ran = initDiscoball(view, u)

\* C23, as claimed: every cache entry a drawn frame of Discoball reads was
\* written by initDiscoball, and every entry a drawn frame of Rand Circles or
\* Rand Rings reads was written by Rand Circles or Rand Rings.
C23_NoCrossPresetReads ==
    (presetObs.op = "frame" /\ presetObs.drawn) =>
      /\ presetObs.id = 8 =>
            /\ presetObs.pre.ran.lo.by = "disco"
            /\ presetObs.pre.ran.hi.by = "disco"
      /\ presetObs.id \in {9, 10} => presetObs.pre.ran.lo.by = "rand"

\* C26, as claimed: after every resize the drawable height H and the
\* drawable width visualW are greater than 0.
C26_DrawablePositive ==
    presetObs.op = "resize" =>
      /\ view.H > 0
      /\ view.visualW > 0

----------------------------------------------------------------------------
(* Claims about the blend state at rest *)

\* C28, as claimed: in every reachable state in which no blend is in
\* progress (motionBlending is false) the from-mode equals the target mode.
C28_FromIsTargetAtRest ==
    ~motionBlending => motionFromMode = motionToMode

----------------------------------------------------------------------------
(* Claims about the render loop *)

\* C24, as claimed: in every frame each time-based accumulator advances by
\* an amount proportional to the frame's measured elapsed time dt (capped at
\* 50 ms): of two consecutive drawn frames of one preset, the advances of v
\* and of m are in the ratio of the two frames' dt.
C24_AdvanceProportionalToDt ==
    /\ motionObs.op = "frame" => motionObs.dt = Min(50, motionObs.gap)
    /\ (presetObs.op = "frame" /\ presetObs.drawn /\ presetObs.again) =>
          /\ (presetObs.adv.v >= 0 /\ presetObs.prevAdv.v >= 0) =>
                presetObs.adv.v * presetObs.prevDt = presetObs.prevAdv.v * presetObs.dt
          /\ (presetObs.adv.m >= 0 /\ presetObs.prevAdv.m >= 0) =>
                presetObs.adv.m * presetObs.prevDt = presetObs.prevAdv.m * presetObs.dt

----------------------------------------------------------------------------
(* Claims about the page's buttons and messages *)

\* C27, as claimed: a BLAIZE_CMD message changes the state of the main
\* window only when its source is the pop-out and the pop-out is open.
C27_OnlyOpenPopupCommands ==
    (/\ panelObs.op = "message"
     /\ ~(panelObs.source = "popup" /\ panelObs.pre.popupWin = "open")) =>
      /\ beatDJ = panelObs.pre.beatDJ
      /\ bpmSTLmode = panelObs.pre.bpmSTLmode
      /\ beatAutoColor = panelObs.pre.beatAutoColor
      /\ beatAutoPreset = panelObs.pre.beatAutoPreset
      /\ beatCount = panelObs.pre.beatCount
      /\ presetNumber = panelObs.pre.presetNumber

\* C29, as claimed: one click on Beat DJ flips beatDJ and resets the beat
\* count and the beat detector, and leaves BPM mode off when it turned Beat
\* DJ on; one click on Auto Color or Auto Preset flips that flag.
C29_OneClickFlips ==
    /\ panelObs.op = "btnBeat" =>
          /\ beatDJ = ~panelObs.pre.beatDJ
          /\ beatCount = 0
          /\ beatDetector = BDReset
          /\ beatDJ => ~bpmSTLmode
    /\ panelObs.op = "btnBeatColor" => beatAutoColor = ~panelObs.pre.beatAutoColor
    /\ panelObs.op = "btnBeatPreset" => beatAutoPreset = ~panelObs.pre.beatAutoPreset

\* C30, as claimed: Beat DJ mode and manual BPM mode are never both on.
C30_ModesExclusive ==
    ~(beatDJ /\ bpmSTLmode)

=============================================================================
